---- MODULE Spec2Model ----
(***************************************************************************)
(* fixed-scroll: transform independent DOM measurements                    *)
(* (src/domMeasurements.js) over a small layout host.                      *)
(*                                                                         *)
(* The host state is a document of five elements with the layout fields    *)
(* the measurement functions read (offsetTop, offsetLeft, offsetWidth,     *)
(* offsetHeight, offsetParent, the computed border widths and overflow),   *)
(* and the window scroll position.  Host events change one field at a      *)
(* time.  The four exported functions are the operations; each call is     *)
(* recorded, with its arguments and its return value, in `call`.           *)
(* Pixel values are integers.                                              *)
(***************************************************************************)
EXTENDS Integers, Sequences, FiniteSets, TLC

VARIABLES
    layout,     \* element -> the layout fields the host exposes for it
    window,     \* the global window: [pageXOffset, pageYOffset]
    hostEvents, \* number of host events (relayouts, scrolls) so far
    call,       \* the last measurement call: arguments and return value
    viewport,   \* the global window: [innerWidth, innerHeight]
    page,       \* the ScrubEffects object and the parts of the page it writes
    history     \* what the events and frames so far did (for the properties)

vars == <<layout, window, hostEvents, call, viewport, page, history>>

(***************************************************************************)
(* Bounds and value sets                                                   *)
(***************************************************************************)
\* Host events (relayouts and window scrolls) in one run.
MaxHostEvents == 1

\* Scroll events and resize events of the window in one run of the page.
MaxScrollEvents == 2
MaxResizeEvents == 2

\* No element: null / undefined, falsy in the source's conditions.
Null == 0

\* The document tree: domParent[e] is the parent element of e (Null for
\* the body).  Children are enumerated in document order, here by number.
\*      1 BODY > 2 DIV > { 3 SPAN > { 5 DIV }, 4 DIV }
domParent == <<Null, 1, 2, 2, 3>>
tagNames == <<"BODY", "DIV", "SPAN", "DIV", "DIV">>

Elements == DOMAIN domParent

\* What a host event can set an element's fields to.
Positions == {[top |-> -20, left |-> -20], [top |-> 200, left |-> 0],
              [top |-> 0, left |-> 120]}
Sizes == {[width |-> 100, height |-> 50], [width |-> 40, height |-> 30],
          [width |-> 0, height |-> 30], [width |-> 40, height |-> 0]}
Borders == {[top |-> <<0, "px">>, left |-> <<0, "px">>],
            [top |-> <<2, "px">>, left |-> <<1, "px">>]}
Overflows == {"visible", "hidden"}
Scrolls == {[pageXOffset |-> 0, pageYOffset |-> 0],
            [pageXOffset |-> 50, pageYOffset |-> 100],
            [pageXOffset |-> 0, pageYOffset |-> 300]}

RECURSIVE IsAncestor(_, _)
\* a is a proper DOM ancestor of e
IsAncestor(a, e) ==
    /\ domParent[e] # Null
    /\ (domParent[e] = a \/ IsAncestor(a, domParent[e]))

IsBody(e) == domParent[e] = Null

\* Tag filters passed as childTags: omitted, or an array of lower case names.
NoTags == [given |-> FALSE, names |-> {}]
TagFilters == {NoTags, [given |-> TRUE, names |-> {"div"}]}

\* Scroll sources passed as scrollContainer: omitted (the window
\* is read), an element (scrollTop/scrollLeft) or a mock of the window.
NoSource == [given |-> FALSE, fields |-> [scrollTop |-> 0]]
WindowObject(w) ==
    [scrollX |-> w.pageXOffset, scrollY |-> w.pageYOffset,
     pageXOffset |-> w.pageXOffset, pageYOffset |-> w.pageYOffset]
ScrollSources(w) ==
    {NoSource,
     [given |-> TRUE, fields |-> [scrollTop |-> 100, scrollLeft |-> 50]],
     [given |-> TRUE, fields |-> [scrollY |-> 100, scrollX |-> 50]],
     [given |-> TRUE, fields |-> [pageYOffset |-> 300, pageXOffset |-> 0]]}

(***************************************************************************)
(* src/domMeasurements.js                                                  *)
(***************************************************************************)
\* parseFloat of a computed length "<n>px": the leading number.
ParseFloat(value) == value[1]

getBordersOffset(L, element) ==
    [top |-> ParseFloat(L[element].borderTopWidth),
     left |-> ParseFloat(L[element].borderLeftWidth)]

\* Mutation: the computed value is tested for truth, not compared with 'visible'.
hasOverflow_Truthy(L, element) == L[element].overflow # ""

hasOverflow(L, element) == L[element].overflow = "visible"

ToLowerCase(tag) ==
    CASE tag = "BODY" -> "body"
      [] tag = "DIV" -> "div"
      [] tag = "SPAN" -> "span"

RECURSIVE ChildrenFrom(_, _)
\* element.children from number n on, in document order
ChildrenFrom(element, n) ==
    IF n > Len(domParent) THEN <<>>
    ELSE IF domParent[n] = element
         THEN <<n>> \o ChildrenFrom(element, n + 1)
         ELSE ChildrenFrom(element, n + 1)

RECURSIVE Filter(_, _)
Filter(seq, tags) ==
    IF seq = <<>> THEN <<>>
    ELSE LET child == Head(seq)
             keep == IF tags.given
                     THEN ToLowerCase(tagNames[child]) \in tags.names
                     ELSE TRUE
         IN (IF keep THEN <<child>> ELSE <<>>) \o Filter(Tail(seq), tags)

getChildren(element, tags) == Filter(ChildrenFrom(element, 1), tags)

RECURSIVE OffsetParentLoop_BreakFirst(_, _, _, _, _)
\* Mutation: the boundary is tested before its border is added.
OffsetParentLoop_BreakFirst(L, element, offsetParent, top, left) ==
    IF L[element].offsetParent = Null THEN [top |-> top, left |-> left]
    ELSE LET next == L[element].offsetParent
             border == getBordersOffset(L, next)
         IN IF offsetParent # Null /\ next = offsetParent
            THEN [top |-> top, left |-> left]
            ELSE OffsetParentLoop_BreakFirst(L, next, offsetParent,
                    top + border.top + L[next].offsetTop,
                    left + border.left + L[next].offsetLeft)

RECURSIVE OffsetParentLoop_AnyBoundary(_, _, _, _, _)
\* Mutation: the loop stops at the first offset parent whenever a boundary is
\* passed (the comparison with the boundary is missing).
OffsetParentLoop_AnyBoundary(L, element, offsetParent, top, left) ==
    IF L[element].offsetParent = Null THEN [top |-> top, left |-> left]
    ELSE LET next == L[element].offsetParent
             border == getBordersOffset(L, next)
             t == top + border.top
             l == left + border.left
         IN IF offsetParent # Null
            THEN [top |-> t, left |-> l]
            ELSE OffsetParentLoop_AnyBoundary(L, next, offsetParent,
                    t + L[next].offsetTop, l + L[next].offsetLeft)

RECURSIVE OffsetParentLoop_AddThenBreak(_, _, _, _, _)
\* Mutation: the boundary's own offset is added before the loop stops at it.
OffsetParentLoop_AddThenBreak(L, element, offsetParent, top, left) ==
    IF L[element].offsetParent = Null THEN [top |-> top, left |-> left]
    ELSE LET next == L[element].offsetParent
             border == getBordersOffset(L, next)
             t == top + border.top + L[next].offsetTop
             l == left + border.left + L[next].offsetLeft
         IN IF offsetParent # Null /\ next = offsetParent
            THEN [top |-> t, left |-> l]
            ELSE OffsetParentLoop_AddThenBreak(L, next, offsetParent, t, l)

RECURSIVE OffsetParentLoop(_, _, _, _, _)
\* the while loop of getElementRect, from `element` with `top`, `left`
OffsetParentLoop(L, element, offsetParent, top, left) ==
    IF L[element].offsetParent = Null THEN [top |-> top, left |-> left]
    ELSE LET next == L[element].offsetParent
             border == getBordersOffset(L, next)
             t == top + border.top
             l == left + border.left
         IN IF offsetParent # Null /\ next = offsetParent
            THEN [top |-> t, left |-> l]
            ELSE OffsetParentLoop(L, next, offsetParent,
                                  t + L[next].offsetTop, l + L[next].offsetLeft)

getElementRect(L, element, offsetParent) ==
    LET width == L[element].offsetWidth
        height == L[element].offsetHeight
        end == OffsetParentLoop(L, element, offsetParent,
                                L[element].offsetTop, L[element].offsetLeft)
    IN [top |-> end.top, left |-> end.left, width |-> width, height |-> height,
        bottom |-> end.top + height, right |-> end.left + width]

\* s.first || s.second || 0 on numeric or missing fields
ReadScroll(fields, first, second) ==
    IF first \in DOMAIN fields /\ fields[first] # 0 THEN fields[first]
    ELSE IF second \in DOMAIN fields /\ fields[second] # 0 THEN fields[second]
    ELSE 0

\* scrollContainer || typeof window !== 'undefined' && window
ScrollContainer(w, source) ==
    IF source.given THEN source.fields ELSE WindowObject(w)

Translate(rect, scrollX, scrollY) ==
    [rect EXCEPT !.top = @ - scrollY, !.bottom = @ - scrollY,
                 !.left = @ - scrollX, !.right = @ - scrollX]

\* Mutation: the scroll fields of getBoundingContentRect are read.
getBoundingRect_PageOffset(L, w, element, offsetParent, source) ==
    LET scrollContainer == ScrollContainer(w, source)
        elementRect == getElementRect(L, element, offsetParent)
        scrollY == ReadScroll(scrollContainer, "pageYOffset", "scrollTop")
        scrollX == ReadScroll(scrollContainer, "pageXOffset", "scrollLeft")
    IN Translate(elementRect, scrollX, scrollY)

getBoundingRect(L, w, element, offsetParent, source) ==
    LET scrollContainer == ScrollContainer(w, source)
        elementRect == getElementRect(L, element, offsetParent)
        scrollY == ReadScroll(scrollContainer, "scrollY", "scrollTop")
        scrollX == ReadScroll(scrollContainer, "scrollX", "scrollLeft")
    IN Translate(elementRect, scrollX, scrollY)

\* Mutation: the top edge is never widened.
Expand_KeepTop(contentRect, rect) ==
    IF rect.width > 0 /\ rect.height > 0
    THEN [contentRect EXCEPT
            !.left = IF rect.left < @ THEN rect.left ELSE @,
            !.right = IF rect.right > @ THEN rect.right ELSE @,
            !.bottom = IF rect.bottom > @ THEN rect.bottom ELSE @]
    ELSE contentRect

\* Mutation: a child counts as soon as one of its dimensions is positive.
Expand_AnySize(contentRect, rect) ==
    IF rect.width > 0 \/ rect.height > 0
    THEN [contentRect EXCEPT
            !.left = IF rect.left < @ THEN rect.left ELSE @,
            !.right = IF rect.right > @ THEN rect.right ELSE @,
            !.top = IF rect.top < @ THEN rect.top ELSE @,
            !.bottom = IF rect.bottom > @ THEN rect.bottom ELSE @]
    ELSE contentRect

\* Lines 122-135: the child's box widens the accumulator when it has a size.
Expand(contentRect, rect) ==
    IF rect.width > 0 /\ rect.height > 0
    THEN [contentRect EXCEPT
            !.left = IF rect.left < @ THEN rect.left ELSE @,
            !.right = IF rect.right > @ THEN rect.right ELSE @,
            !.top = IF rect.top < @ THEN rect.top ELSE @,
            !.bottom = IF rect.bottom > @ THEN rect.bottom ELSE @]
    ELSE contentRect

RECURSIVE ForEachChild(_, _, _, _, _)
RECURSIVE getContentRectRecursive(_, _, _, _, _, _)
\* elementChildren.forEach(...) over the rest of the children.  `acc` is the
\* shared contentRect object and, as a log, the children visited so far with
\* the accumulator before and after lines 122-135.
ForEachChild(L, elementChildren, offsetParent, childTags, acc) ==
    IF elementChildren = <<>> THEN acc
    ELSE LET child == Head(elementChildren)
             rect == getElementRect(L, child, offsetParent)
             expanded == Expand(acc.contentRect, rect)
             visit == [child |-> child, rect |-> rect,
                       before |-> acc.contentRect, after |-> expanded]
             acc1 == [contentRect |-> expanded,
                      visits |-> Append(acc.visits, visit)]
             grandChildren == getChildren(child, childTags)
             acc2 == IF Len(grandChildren) # 0 /\ hasOverflow(L, child)
                     THEN getContentRectRecursive(L, child, offsetParent, childTags,
                                                  grandChildren, acc1)
                     ELSE acc1
         IN ForEachChild(L, Tail(elementChildren), offsetParent, childTags, acc2)

\* Mutation: width and height are not recomputed after the children.
getContentRectRecursive_KeepSize(L, element, offsetParent, childTags, elementChildren, acc) ==
    ForEachChild(L, elementChildren, offsetParent, childTags, acc)

getContentRectRecursive(L, element, offsetParent, childTags, elementChildren, acc) ==
    LET done == ForEachChild(L, elementChildren, offsetParent, childTags, acc)
        c == done.contentRect
    IN [done EXCEPT !.contentRect =
            [c EXCEPT !.width = c.right - c.left, !.height = c.bottom - c.top]]

\* Mutation: the accumulator starts from a zeroed Box, not the element's own.
ContentRectRun_ZeroSeed(L, element, offsetParent, childTags) ==
    getContentRectRecursive(L, element, offsetParent, childTags,
        getChildren(element, childTags),
        [contentRect |-> [top |-> 0, left |-> 0, width |-> 0, height |-> 0,
                          bottom |-> 0, right |-> 0],
         visits |-> <<>>])

\* The first call: contentRect and elementChildren are not passed.
ContentRectRun(L, element, offsetParent, childTags) ==
    getContentRectRecursive(L, element, offsetParent, childTags,
        getChildren(element, childTags),
        [contentRect |-> getElementRect(L, element, offsetParent), visits |-> <<>>])

getContentRect(L, element, offsetParent, childTags) ==
    ContentRectRun(L, element, offsetParent, childTags).contentRect

\* Mutation: the scroll fields of getBoundingRect are read.
getBoundingContentRect_ScrollXY(L, w, element, offsetParent, childTags, source) ==
    LET scrollContainer == ScrollContainer(w, source)
        elementRect == getContentRect(L, element, offsetParent, childTags)
        scrollY == ReadScroll(scrollContainer, "scrollY", "scrollTop")
        scrollX == ReadScroll(scrollContainer, "scrollX", "scrollLeft")
    IN Translate(elementRect, scrollX, scrollY)

getBoundingContentRect(L, w, element, offsetParent, childTags, source) ==
    LET scrollContainer == ScrollContainer(w, source)
        elementRect == getContentRect(L, element, offsetParent, childTags)
        scrollY == ReadScroll(scrollContainer, "pageYOffset", "scrollTop")
        scrollX == ReadScroll(scrollContainer, "pageXOffset", "scrollLeft")
    IN Translate(elementRect, scrollX, scrollY)

(***************************************************************************)
(* src/utils.js and src/scrubAnimations.js                                 *)
(***************************************************************************)
\* this.nextFrameCallbackId = undefined
Undefined == 0

\* document.getElementById('root'), and what root.scrollHeight reports
RootElement == 2
RootScrollHeight == 600

\* The data-* attributes of the elements: 3 is a parallax strip, 4 slides in.
NoDataset == [none |-> TRUE]
datasets ==
    <<NoDataset, NoDataset,
      [effect |-> "parallax", speed |-> 1],
      [effect |-> "slide-in", direction |-> "top", threshold |-> 1],
      NoDataset>>

Viewports == {[innerWidth |-> 300, innerHeight |-> 150],
              [innerWidth |-> 300, innerHeight |-> 80]}

\* {...a, ...b}
Spread(a, b) ==
    [k \in DOMAIN a \cup DOMAIN b |-> IF k \in DOMAIN b THEN b[k] ELSE a[k]]

getWindowSize(v) == [width |-> v.innerWidth, height |-> v.innerHeight]

getWindowScroll(w) == [y |-> w.pageYOffset, x |-> w.pageXOffset]

isInViewport(rect, win) ==
    LET top == rect.top
        left == rect.left
        bottom == rect.bottom
        right == rect.right
        vertical ==
            \/ (top - win.y) >= 0 /\ (top - win.y) <= win.height
            \/ (bottom - win.y) >= 0 /\ (bottom - win.y) <= win.height
            \/ (top - win.y) < 0 /\ (bottom - win.y) > win.height
        horizontal ==
            \/ (left - win.x) >= 0 /\ (left - win.x) <= win.width
            \/ (right - win.x) >= 0 /\ (right - win.x) <= win.width
            \/ (left - win.x) < 0 /\ (right - win.x) > win.width
    IN vertical /\ horizontal

\* root.querySelectorAll('[data-effect]'), in document order
RECURSIVE QueryEffectsFrom(_)
QueryEffectsFrom(n) ==
    IF n > Len(domParent) THEN <<>>
    ELSE (IF IsAncestor(RootElement, n) /\ "effect" \in DOMAIN datasets[n]
          THEN <<n>> ELSE <<>>) \o QueryEffectsFrom(n + 1)

EffectElements == {QueryEffectsFrom(1)[i] : i \in DOMAIN QueryEffectsFrom(1)}

getElementsWithEffects(L) ==
    [element \in EffectElements |->
        Spread(Spread([inViewport |-> FALSE],
                      getElementRect(L, element, RootElement)),
               datasets[element])]

\* The ScrubEffects object as constructed, with the page around it: the
\* root's scroll position and class, the body height, the elements' inline
\* transforms and the host's list of animation frame callbacks.  `trace` and
\* `applied` note which methods ran since the last rendering frame and which
\* elements the last applyEffects reached the switch for.
Constructed(readyState) ==
    [readyState |-> readyState,
     listening |-> FALSE,
     nextFrameCallbackId |-> Undefined,
     elementsWithEffectsMap |-> <<>>,
     rootScroll |-> [scrollTop |-> 0, scrollLeft |-> 0],
     rootClass |-> {},
     bodyHeight |-> <<0, "">>,
     transform |-> [e \in Elements |-> <<>>],
     animationFrameCallbacks |-> <<>>,
     trace |-> <<>>,
     applied |-> {}]

initDocument(p) ==
    [p EXCEPT !.bodyHeight = <<RootScrollHeight, "px">>,
              !.rootClass = @ \cup {"scrub-root"}]

propagateScroll(p, params) ==
    [p EXCEPT !.rootScroll = [scrollTop |-> params.y, scrollLeft |-> params.x],
              !.trace = Append(@, "propagateScroll")]

\* requestAnimationFrame: the callback joins the host's list and a handle
\* greater than zero comes back.
requestAnimationFrame(p) == Len(p.animationFrameCallbacks) + 1

registerNextAF(p) ==
    IF p.nextFrameCallbackId = Undefined
    THEN LET handle == requestAnimationFrame(p)
         IN [p EXCEPT !.animationFrameCallbacks = Append(@, handle),
                      !.nextFrameCallbackId = handle]
    ELSE p

\* A transform: the function and its length in px as a fraction num/den.
Translate1(axis, num, den) == <<axis, num, den>>

\* case 'parallax': every child of the strip's first child is moved.
Parallax(p, element, params, win) ==
    LET strip == ChildrenFrom(element, 1)
        children == IF strip = <<>> THEN <<>> ELSE ChildrenFrom(Head(strip), 1)
        distance == (win.y - params.top) * params.speed
    IN [p EXCEPT !.transform =
            [e \in Elements |->
                IF \E i \in DOMAIN children : children[i] = e
                THEN Translate1("translateY", distance, 1) ELSE @[e]]]

\* case 'slide-in': progress = max(min(current / end, 1), 0), kept as the
\* fraction clamped / end.
SlideIn(p, element, params, win) ==
    LET end == win.height * params.threshold
        current == win.y + win.height - params.top
        clamped == IF current > end THEN end ELSE IF current < 0 THEN 0 ELSE current
        rest == end - clamped
        transforms ==
            [top |-> Translate1("translateY", (0 - params.bottom) * rest, end),
             left |-> Translate1("translateX", (0 - params.right) * rest, end),
             bottom |-> Translate1("translateY",
                            (win.height - (params.top - win.y)) * rest, end),
             right |-> Translate1("translateX",
                            (win.width - params.left) * rest, end)]
    IN [p EXCEPT !.transform[element] =
            IF params.direction \in DOMAIN transforms
            THEN transforms[params.direction] ELSE <<>>]

\* The body of applyEffects' loop for one entry of the map: the viewport
\* check, then the switch.
ApplyEntry(p, element, win) ==
    LET params == p.elementsWithEffectsMap[element]
        inViewport == isInViewport(params, win)
    IN IF ~params.inViewport /\ ~inViewport
       THEN p
       ELSE LET p1 == [p EXCEPT
                   !.elementsWithEffectsMap[element].inViewport = inViewport,
                   !.applied = @ \cup {element}]
            IN CASE params.effect = "parallax" -> Parallax(p1, element, params, win)
                 [] params.effect = "slide-in" -> SlideIn(p1, element, params, win)
                 [] OTHER -> p1

RECURSIVE ApplyEach(_, _, _)
\* for (const [element, params] of this.elementsWithEffectsMap): each entry
\* in turn, on what the entry before it left.
ApplyEach(p, elements, win) ==
    IF elements = <<>> THEN p
    ELSE CHOOSE done \in {ApplyEach(next, Tail(elements), win) :
                             next \in {ApplyEntry(p, Head(elements), win)}} : TRUE

RECURSIVE KeysFrom(_, _)
\* the keys of the map, in insertion (document) order
KeysFrom(map, n) ==
    IF n > Len(domParent) THEN <<>>
    ELSE (IF n \in DOMAIN map THEN <<n>> ELSE <<>>) \o KeysFrom(map, n + 1)

applyEffects(p, win) ==
    CHOOSE done \in {ApplyEach(start, KeysFrom(start.elementsWithEffectsMap, 1), win) :
                        start \in {[p EXCEPT !.applied = {},
                                             !.trace = Append(@, "applyEffects")]}} : TRUE

init(p, L, w, v) ==
    LET windowScrollAndSize == Spread(getWindowSize(v), getWindowScroll(w))
        measured == [p EXCEPT !.elementsWithEffectsMap = getElementsWithEffects(L)]
    IN registerNextAF(propagateScroll(initDocument(measured), windowScrollAndSize))

\* Mutation: the debounce flag is not released at the end of the callback.
animationFrameCallback_KeepFlag(p, w, v) ==
    CHOOSE done \in
        {applyEffects(propagateScroll(p, windowScrollAndSize), windowScrollAndSize) :
            windowScrollAndSize \in {Spread(getWindowSize(v), getWindowScroll(w))}} : TRUE

\* The callback registerNextAF hands to requestAnimationFrame.
animationFrameCallback(p, w, v) ==
    CHOOSE done \in
        {[applyEffects(propagateScroll(p, windowScrollAndSize), windowScrollAndSize)
             EXCEPT !.nextFrameCallbackId = Undefined] :
            windowScrollAndSize \in {Spread(getWindowSize(v), getWindowScroll(w))}} : TRUE

\* onReady's callback: the listeners are added and init runs.
Ready(p, L, w, v) == init([p EXCEPT !.listening = TRUE], L, w, v)

\* new ScrubEffects(root): onReady runs the callback at once unless the
\* document is still loading.
Construct(readyState, L, w, v) ==
    IF readyState = "loading" THEN Constructed(readyState)
    ELSE Ready(Constructed(readyState), L, w, v)

(***************************************************************************)
(* The host: the initial document and its events                           *)
(***************************************************************************)
Element(tag, parent, top, left, width, height) ==
    [offsetTop |-> top, offsetLeft |-> left,
     offsetWidth |-> width, offsetHeight |-> height,
     offsetParent |-> parent,
     borderTopWidth |-> <<0, "px">>, borderLeftWidth |-> <<0, "px">>,
     overflow |-> "visible"]

\* The page as first laid out: every element positioned, no borders.
InitialLayout ==
    <<Element("BODY", Null, 0, 0, 100, 50),
      Element("DIV", 1, 0, 0, 100, 50),
      Element("SPAN", 2, 200, 0, 100, 50),
      Element("DIV", 2, 0, 120, 40, 30),
      Element("DIV", 3, -20, -20, 40, 30)>>

NoCall ==
    [op |-> "none", element |-> Null, offsetParent |-> Null, childTags |-> NoTags,
     scrollContainer |-> NoSource, ret |-> getElementRect(InitialLayout, 1, Null),
     visits |-> <<>>]

\* Nothing has happened yet: no event, no rendering frame.
NoHistory ==
    [scrollEvents |-> 0, received |-> 0, resizeEvents |-> 0,
     lastCheck |-> [e \in EffectElements |-> FALSE],
     frame |-> [callbacks |-> 0, read |-> 0,
                snapshot |-> [width |-> 0, height |-> 0, y |-> 0, x |-> 0],
                trace |-> <<>>,
                checked |-> [e \in EffectElements |-> FALSE],
                previous |-> [e \in EffectElements |-> FALSE],
                applied |-> {}]]

InitialViewport == [innerWidth |-> 300, innerHeight |-> 150]

Init ==
    /\ layout = InitialLayout
    /\ window = [pageXOffset |-> 0, pageYOffset |-> 0]
    /\ hostEvents = 0
    /\ call = NoCall
    /\ viewport = InitialViewport
    /\ page = Constructed("loading")
    /\ history = NoHistory

\* Host events happen between tasks: a measurement call and the use of its
\* return value run to completion first (single threaded, synchronous).
HostEvent ==
    /\ call.op = "none"
    /\ hostEvents < MaxHostEvents
    /\ hostEvents' = hostEvents + 1
    /\ UNCHANGED <<call, viewport, page, history>>

\* The body keeps its place: its offsetTop and offsetLeft are always 0 and it
\* has no offset parent.  It is never measured as a child.
Move(e, p) ==
    /\ HostEvent /\ ~IsBody(e)
    /\ p # [top |-> layout[e].offsetTop, left |-> layout[e].offsetLeft]
    /\ layout' = [layout EXCEPT ![e].offsetTop = p.top, ![e].offsetLeft = p.left]
    /\ UNCHANGED window

Resize(e, s) ==
    /\ HostEvent /\ ~IsBody(e)
    /\ s # [width |-> layout[e].offsetWidth, height |-> layout[e].offsetHeight]
    /\ layout' = [layout EXCEPT ![e].offsetWidth = s.width,
                                ![e].offsetHeight = s.height]
    /\ UNCHANGED window

\* The offset parent is a proper ancestor, or null (position: fixed).
SetOffsetParent(e, p) ==
    /\ HostEvent /\ ~IsBody(e) /\ p # layout[e].offsetParent
    /\ p = Null \/ IsAncestor(p, e)
    /\ layout' = [layout EXCEPT ![e].offsetParent = p]
    /\ UNCHANGED window

SetBorders(e, b) ==
    /\ HostEvent
    /\ b # [top |-> layout[e].borderTopWidth, left |-> layout[e].borderLeftWidth]
    /\ layout' = [layout EXCEPT ![e].borderTopWidth = b.top,
                                ![e].borderLeftWidth = b.left]
    /\ UNCHANGED window

SetOverflow(e, v) ==
    /\ HostEvent /\ ~IsBody(e) /\ v # layout[e].overflow
    /\ layout' = [layout EXCEPT ![e].overflow = v]
    /\ UNCHANGED window

WindowScroll(w) ==
    /\ HostEvent /\ w # window
    /\ window' = w
    /\ UNCHANGED layout

(***************************************************************************)
(* The measurement calls                                                   *)
(***************************************************************************)
CallGetElementRect(e, b) ==
    /\ call.op = "none"
    /\ call' = [op |-> "getElementRect", element |-> e, offsetParent |-> b,
                childTags |-> NoTags, scrollContainer |-> NoSource,
                ret |-> getElementRect(layout, e, b), visits |-> <<>>]
    /\ UNCHANGED <<layout, window, hostEvents, viewport, page, history>>

CallGetBoundingRect(e, b, s) ==
    /\ call.op = "none"
    /\ call' = [op |-> "getBoundingRect", element |-> e, offsetParent |-> b,
                childTags |-> NoTags, scrollContainer |-> s,
                ret |-> getBoundingRect(layout, window, e, b, s), visits |-> <<>>]
    /\ UNCHANGED <<layout, window, hostEvents, viewport, page, history>>

CallGetContentRect(e, b, tags) ==
    /\ call.op = "none"
    /\ LET run == ContentRectRun(layout, e, b, tags)
       IN call' = [op |-> "getContentRect", element |-> e, offsetParent |-> b,
                   childTags |-> tags, scrollContainer |-> NoSource,
                   ret |-> run.contentRect, visits |-> run.visits]
    /\ UNCHANGED <<layout, window, hostEvents, viewport, page, history>>

CallGetBoundingContentRect(e, b, tags, s) ==
    /\ call.op = "none"
    /\ call' = [op |-> "getBoundingContentRect", element |-> e, offsetParent |-> b,
                childTags |-> tags, scrollContainer |-> s,
                ret |-> getBoundingContentRect(layout, window, e, b, tags, s),
                visits |-> ContentRectRun(layout, e, b, tags).visits]
    /\ UNCHANGED <<layout, window, hostEvents, viewport, page, history>>

\* The caller is done with the returned Box: nothing of a call survives it.
Return ==
    /\ call.op # "none"
    /\ call' = NoCall
    /\ UNCHANGED <<layout, window, hostEvents, viewport, page, history>>

Boundaries == Elements \cup {Null}

Next ==
    \/ \E e \in Elements, p \in Positions : Move(e, p)
    \/ \E e \in Elements, s \in Sizes : Resize(e, s)
    \/ \E e \in Elements, p \in Boundaries : SetOffsetParent(e, p)
    \/ \E e \in Elements, b \in Borders : SetBorders(e, b)
    \/ \E e \in Elements, v \in Overflows : SetOverflow(e, v)
    \/ \E w \in Scrolls : WindowScroll(w)
    \/ \E e \in Elements, b \in Boundaries : CallGetElementRect(e, b)
    \/ \E e \in Elements, b \in Boundaries, s \in ScrollSources(window) :
          CallGetBoundingRect(e, b, s)
    \/ \E e \in Elements, b \in Boundaries, t \in TagFilters :
          CallGetContentRect(e, b, t)
    \/ \E e \in Elements, b \in Boundaries, t \in TagFilters,
          s \in ScrollSources(window) : CallGetBoundingContentRect(e, b, t, s)
    \/ Return

Spec == Init /\ [][Next]_vars

(***************************************************************************)
(* The page of src/scrubAnimations.js: the script constructs the object,   *)
(* then the window's events and the rendering frames drive it              *)
(***************************************************************************)
ScrubInit ==
    /\ layout = InitialLayout
    /\ window \in Scrolls
    /\ hostEvents = 0
    /\ call = NoCall
    /\ viewport \in Viewports
    /\ \E readyState \in {"loading", "interactive"} :
          page = Construct(readyState, layout, window, viewport)
    /\ history = NoHistory

\* document's DOMContentLoaded: onReady's listener runs the callback.
DOMContentLoaded ==
    /\ page.readyState = "loading"
    /\ page' = Ready([page EXCEPT !.readyState = "interactive"],
                     layout, window, viewport)
    /\ UNCHANGED <<layout, window, hostEvents, call, viewport, history>>

\* The user scrolls the window to w; the scroll listener, if added, runs.
ScrollEvent(w) ==
    /\ history.scrollEvents < MaxScrollEvents
    /\ w # window
    /\ window' = w
    /\ page' = IF page.listening THEN registerNextAF(page) ELSE page
    /\ history' = [history EXCEPT
            !.scrollEvents = @ + 1,
            !.received = IF page.listening THEN history.scrollEvents + 1 ELSE @]
    /\ UNCHANGED <<layout, hostEvents, call, viewport>>

\* The window is resized to v; the resize listener, if added, runs.
ResizeEvent(v) ==
    /\ history.resizeEvents < MaxResizeEvents
    /\ v # viewport
    /\ viewport' = v
    /\ page' = IF page.listening THEN init(page, layout, window, v) ELSE page
    /\ history' = [history EXCEPT !.resizeEvents = @ + 1]
    /\ UNCHANGED <<layout, window, hostEvents, call>>

RECURSIVE RunCallbacks(_, _, _, _)
\* The host runs the callbacks that were on its list when the frame began.
RunCallbacks(p, w, v, n) ==
    IF n = 0 THEN p
    ELSE RunCallbacks(animationFrameCallback(p, w, v), w, v, n - 1)

\* A rendering frame with animation frame callbacks to run.
AnimationFrame ==
    /\ page.animationFrameCallbacks # <<>>
    /\ \E n \in {Len(page.animationFrameCallbacks)},
          win \in {Spread(getWindowSize(viewport), getWindowScroll(window))},
          ran \in {RunCallbacks([page EXCEPT !.animationFrameCallbacks = <<>>],
                                window, viewport, Len(page.animationFrameCallbacks))} :
       LET checked == [e \in EffectElements |->
                          isInViewport(page.elementsWithEffectsMap[e], win)]
       IN /\ page' = [ran EXCEPT !.trace = <<>>]
          /\ history' = [history EXCEPT
                  !.lastCheck = checked,
                  !.frame = [callbacks |-> n, read |-> history.scrollEvents,
                             snapshot |-> win, trace |-> ran.trace,
                             checked |-> checked,
                             previous |-> history.lastCheck,
                             applied |-> ran.applied]]
    /\ UNCHANGED <<layout, window, hostEvents, call, viewport>>

ScrubNext ==
    \/ DOMContentLoaded
    \/ \E w \in Scrolls : ScrollEvent(w)
    \/ \E v \in Viewports : ResizeEvent(v)
    \/ AnimationFrame

\* Every requested animation frame is eventually given by the host.
ScrubSpec == ScrubInit /\ [][ScrubNext]_vars /\ WF_vars(AnimationFrame)

(***************************************************************************)
(* Properties                                                              *)
(***************************************************************************)
Min(S) == CHOOSE x \in S : \A y \in S : x <= y
Max(S) == CHOOSE x \in S : \A y \in S : x >= y

RECURSIVE SumSeq(_)
SumSeq(seq) == IF seq = <<>> THEN 0 ELSE Head(seq) + SumSeq(Tail(seq))

RECURSIVE OffsetParentChain(_, _)
\* a1..an: e's offset parent, its offset parent, ... up to the one with none
OffsetParentChain(L, e) ==
    IF L[e].offsetParent = Null THEN <<>>
    ELSE <<L[e].offsetParent>> \o OffsetParentChain(L, L[e].offsetParent)

InChain(b, chain) == \E i \in DOMAIN chain : chain[i] = b

\* k: the index of the boundary in the chain, n when it is absent
BoundaryIndex(b, chain) ==
    IF InChain(b, chain) THEN CHOOSE i \in DOMAIN chain : chain[i] = b
    ELSE Len(chain)

\* The element and arguments of the recorded call, and the Box the element
\* itself has against the call's boundary.
OwnRect == getElementRect(layout, call.element, call.offsetParent)

\* C1: every Box returned by getElementRect, getBoundingRect, getContentRect
\* and getBoundingContentRect has bottom - top = height and
\* right - left = width.
BoxIsConsistent ==
    call.op # "none" =>
        /\ call.ret.bottom - call.ret.top = call.ret.height
        /\ call.ret.right - call.ret.left = call.ret.width

\* C1 witness: a window relative content Box that descendants have widened
\* and a non-zero scroll has moved.
BoxIsConsistentWitness ==
    /\ call.op = "getBoundingContentRect"
    /\ call.ret.width > layout[call.element].offsetWidth
    /\ call.ret.height > layout[call.element].offsetHeight
    /\ call.ret.top # getContentRect(layout, call.element, call.offsetParent,
                                     call.childTags).top

\* C2: getElementRect(e, b).top is e.offsetTop plus the border-top of
\* a1..ak plus the offsetTop of a1..a(k-1) when b = ak is in e's offset
\* parent chain, and e.offsetTop plus border-top and offsetTop of all of
\* a1..an when it is not; left likewise; width and height are e's own.
ElementRectIsChainSum ==
    call.op = "getElementRect" =>
        LET e == call.element
            chain == OffsetParentChain(layout, e)
            found == InChain(call.offsetParent, chain)
            k == BoundaryIndex(call.offsetParent, chain)
            offsets == IF found THEN k - 1 ELSE Len(chain)
            borderTops == [i \in 1..k |-> layout[chain[i]].borderTopWidth[1]]
            borderLefts == [i \in 1..k |-> layout[chain[i]].borderLeftWidth[1]]
            offsetTops == [i \in 1..offsets |-> layout[chain[i]].offsetTop]
            offsetLefts == [i \in 1..offsets |-> layout[chain[i]].offsetLeft]
        IN /\ call.ret.top =
                layout[e].offsetTop + SumSeq(borderTops) + SumSeq(offsetTops)
           /\ call.ret.left =
                layout[e].offsetLeft + SumSeq(borderLefts) + SumSeq(offsetLefts)
           /\ call.ret.width = layout[e].offsetWidth
           /\ call.ret.height = layout[e].offsetHeight

\* C2 witness: the boundary is the second of three offset parents and has a
\* border and an offset of its own.
ElementRectIsChainSumWitness ==
    /\ call.op = "getElementRect"
    /\ LET chain == OffsetParentChain(layout, call.element)
       IN /\ Len(chain) = 3
          /\ chain[2] = call.offsetParent
          /\ layout[chain[2]].borderTopWidth[1] > 0
          /\ layout[chain[1]].offsetTop # 0

\* The descendants of el that getContentRect is to reach: through children
\* that pass the tag filter, below ancestors (under el) with visible overflow.
PassesFilter(d, tags) == tags.given => ToLowerCase(tagNames[d]) \in tags.names

RECURSIVE Reached(_, _, _, _)
Reached(L, el, d, tags) ==
    /\ domParent[d] # Null
    /\ PassesFilter(d, tags)
    /\ \/ domParent[d] = el
       \/ /\ Reached(L, el, domParent[d], tags)
          /\ L[domParent[d]].overflow = "visible"

UnionBoxes(L, el, b, tags) ==
    {getElementRect(L, el, b)} \cup
    {getElementRect(L, d, b) : d \in
        {x \in Elements : /\ Reached(L, el, x, tags)
                          /\ L[x].offsetWidth > 0
                          /\ L[x].offsetHeight > 0}}

\* C3: getContentRect(el, b, tags) is the min/max union of el's own Box with
\* the Boxes of the eligible descendants that have a size, width and height
\* being right - left and bottom - top; A(200, 0, 100, 50) with the one child
\* B(180, -20, 40, 30) gives top 180, left -20, right 100, bottom 250,
\* width 120, height 70.
ContentRectIsUnion ==
    call.op = "getContentRect" =>
        LET boxes == UnionBoxes(layout, call.element, call.offsetParent,
                                call.childTags)
            left == Min({x.left : x \in boxes})
            top == Min({x.top : x \in boxes})
            right == Max({x.right : x \in boxes})
            bottom == Max({x.bottom : x \in boxes})
        IN /\ call.ret = [top |-> top, left |-> left, right |-> right,
                          bottom |-> bottom, width |-> right - left,
                          height |-> bottom - top]
           /\ ( /\ OwnRect = [top |-> 200, left |-> 0, width |-> 100,
                              height |-> 50, bottom |-> 250, right |-> 100]
                /\ Len(call.visits) = 1
                /\ call.visits[1].rect = [top |-> 180, left |-> -20, width |-> 40,
                                          height |-> 30, bottom |-> 210, right |-> 20]
                => call.ret = [top |-> 180, left |-> -20, right |-> 100,
                               bottom |-> 250, width |-> 120, height |-> 70] )

\* C3 witness: the scenario, A with its one child B.
ContentRectIsUnionWitness ==
    /\ call.op = "getContentRect"
    /\ OwnRect = [top |-> 200, left |-> 0, width |-> 100, height |-> 50,
                  bottom |-> 250, right |-> 100]
    /\ Len(call.visits) = 1
    /\ call.visits[1].rect = [top |-> 180, left |-> -20, width |-> 40,
                              height |-> 30, bottom |-> 210, right |-> 20]
    /\ call.ret.top = 180 /\ call.ret.height = 70

\* C4: the Box of getContentRect(el, b, tags) contains the Box of
\* getElementRect(el, b), bounds inclusive.
ContentRectContainsElementRect ==
    call.op = "getContentRect" =>
        /\ call.ret.left <= OwnRect.left
        /\ call.ret.top <= OwnRect.top
        /\ call.ret.right >= OwnRect.right
        /\ call.ret.bottom >= OwnRect.bottom

\* C4 witness: descendants widen the Box to the left, to the right and below,
\* and the top edge stays the element's own (the bound is inclusive).
ContentRectContainsElementRectWitness ==
    /\ call.op = "getContentRect"
    /\ call.ret.left < OwnRect.left
    /\ call.ret.right > OwnRect.right
    /\ call.ret.bottom > OwnRect.bottom
    /\ call.ret.top = OwnRect.top

Visited == {call.visits[i].child : i \in DOMAIN call.visits}

Contains(outer, inner) ==
    /\ outer.left <= inner.left
    /\ outer.top <= inner.top
    /\ outer.right >= inner.right
    /\ outer.bottom >= inner.bottom

\* The layout after element d is moved to p and resized to s.
Relaid(L, d, p, s) ==
    [L EXCEPT ![d].offsetTop = p.top, ![d].offsetLeft = p.left,
              ![d].offsetWidth = s.width, ![d].offsetHeight = s.height]

EmptyChildSkippedNotPruned ==
    call.op = "getContentRect" =>
        \A i \in DOMAIN call.visits :
            LET child == call.visits[i].child
                rect == call.visits[i].rect
            IN (rect.width <= 0 \/ rect.height <= 0) =>
                /\ call.visits[i].after = call.visits[i].before
                /\ layout[child].overflow = "visible" =>
                     \A g \in Elements :
                        (domParent[g] = child /\ PassesFilter(g, call.childTags)) =>
                            \E j \in DOMAIN call.visits :
                                /\ j > i
                                /\ call.visits[j].child = g
                                /\ ( /\ call.visits[j].rect.width > 0
                                     /\ call.visits[j].rect.height > 0 )
                                   => Contains(call.ret, call.visits[j].rect)

\* C6 witness: a child without a size is passed over and a child of it then
\* widens the Box.
EmptyChildSkippedNotPrunedWitness ==
    /\ call.op = "getContentRect"
    /\ \E i, j \in DOMAIN call.visits :
          /\ j > i
          /\ (call.visits[i].rect.width <= 0 \/ call.visits[i].rect.height <= 0)
          /\ domParent[call.visits[j].child] = call.visits[i].child
          /\ call.visits[j].after # call.visits[j].before

\* C7: a boundary that is not in the target's offset parent chain (an
\* unrelated element, an ancestor that is no offset parent, the target itself)
\* is ignored: getElementRect returns what it returns without a boundary.
ForeignBoundaryIsIgnored ==
    ( /\ call.op = "getElementRect"
      /\ call.offsetParent # Null
      /\ ~InChain(call.offsetParent, OffsetParentChain(layout, call.element)) )
    => call.ret = getElementRect(layout, call.element, Null)

\* C7 witness: the boundary is an ancestor of the target that is not one of
\* its offset parents, and the walk went on to the root.
ForeignBoundaryIsIgnoredWitness ==
    /\ call.op = "getElementRect"
    /\ call.offsetParent # Null
    /\ IsAncestor(call.offsetParent, call.element)
    /\ LET chain == OffsetParentChain(layout, call.element)
       IN ~InChain(call.offsetParent, chain) /\ Len(chain) >= 2

\* The last element of the offset parent chain, the one with no offset parent.
ChainRoot(chain) == chain[Len(chain)]

\* C8 as stated: getElementRect(el) equals getElementRect(el, root), root
\* being the last element of el's offset parent chain.
RootBoundaryIsNoBoundary ==
    LET chain == OffsetParentChain(layout, call.element)
    IN (call.op = "getElementRect" /\ call.offsetParent = Null /\ chain # <<>>)
       => call.ret = getElementRect(layout, call.element, ChainRoot(chain))

\* C8 as amended: getElementRect(el) is getElementRect(el, root) moved by the
\* root's own offsetTop and offsetLeft, so the two are equal when those are 0,
\* as they are when the root is the body.
RootBoundaryDiffersByRootOffset ==
    LET chain == OffsetParentChain(layout, call.element)
    IN (call.op = "getElementRect" /\ call.offsetParent = Null /\ chain # <<>>)
       => LET root == ChainRoot(chain)
              rect == getElementRect(layout, call.element, root)
              dy == layout[root].offsetTop
              dx == layout[root].offsetLeft
          IN /\ call.ret = [top |-> rect.top + dy, bottom |-> rect.bottom + dy,
                            left |-> rect.left + dx, right |-> rect.right + dx,
                            width |-> rect.width, height |-> rect.height]
             /\ (dy = 0 /\ dx = 0) => call.ret = rect

\* C8 witness: a target three offset parents below the body, measured
\* without a boundary, has the Box it has against the body.
RootBoundaryDiffersByRootOffsetWitness ==
    /\ call.op = "getElementRect"
    /\ call.offsetParent = Null
    /\ LET chain == OffsetParentChain(layout, call.element)
       IN /\ Len(chain) = 3
          /\ IsBody(ChainRoot(chain))
          /\ call.ret = getElementRect(layout, call.element, ChainRoot(chain))
          /\ call.ret.top # layout[call.element].offsetTop

Moved(rect, dx, dy) ==
    [top |-> rect.top - dy, bottom |-> rect.bottom - dy,
     left |-> rect.left - dx, right |-> rect.right - dx,
     width |-> rect.width, height |-> rect.height]

\* C9: getBoundingRect(el, b, s) for a scroll source reporting scrollX = sx
\* and scrollY = sy is getElementRect(el, b) with sy taken from top and bottom
\* and sx from left and right, width and height unchanged; for
\* {scrollY: 100, scrollX: 50} it is moved by (-50, -100).
BoundingRectSubtractsScrollXY ==
    call.op = "getBoundingRect" =>
        LET s == ScrollContainer(window, call.scrollContainer)
        IN /\ ("scrollX" \in DOMAIN s /\ "scrollY" \in DOMAIN s)
                => call.ret = Moved(OwnRect, s.scrollX, s.scrollY)
           /\ s = [scrollY |-> 100, scrollX |-> 50]
                => /\ call.ret.top = OwnRect.top - 100
                   /\ call.ret.bottom = OwnRect.bottom - 100
                   /\ call.ret.left = OwnRect.left - 50
                   /\ call.ret.right = OwnRect.right - 50

\* C9 witness: the mock {scrollY: 100, scrollX: 50} moves the Box of an
\* element measured against a boundary in its chain.
BoundingRectSubtractsScrollXYWitness ==
    /\ call.op = "getBoundingRect"
    /\ call.scrollContainer.given
    /\ call.scrollContainer.fields = [scrollY |-> 100, scrollX |-> 50]
    /\ InChain(call.offsetParent, OffsetParentChain(layout, call.element))
    /\ call.ret.top = OwnRect.top - 100
    /\ call.ret.left = OwnRect.left - 50

\* C10: getBoundingContentRect(el, b, tags, s) for a scroll source reporting
\* pageXOffset = sx and pageYOffset = sy is getContentRect(el, b, tags) with sy
\* taken from top and bottom and sx from left and right, width and height
\* unchanged; for pageYOffset = 300 the top is contentRect.top - 300.
BoundingContentRectSubtractsPageOffset ==
    call.op = "getBoundingContentRect" =>
        LET s == ScrollContainer(window, call.scrollContainer)
            contentRect == getContentRect(layout, call.element, call.offsetParent,
                                          call.childTags)
        IN /\ ("pageXOffset" \in DOMAIN s /\ "pageYOffset" \in DOMAIN s)
                => call.ret = Moved(contentRect, s.pageXOffset, s.pageYOffset)
           /\ ("pageYOffset" \in DOMAIN s /\ s.pageYOffset = 300)
                => call.ret.top = contentRect.top - 300

\* C10 witness: pageYOffset = 300 moves a content Box that a descendant has
\* widened.
BoundingContentRectSubtractsPageOffsetWitness ==
    /\ call.op = "getBoundingContentRect"
    /\ call.scrollContainer.given
    /\ call.scrollContainer.fields = [pageYOffset |-> 300, pageXOffset |-> 0]
    /\ \E i \in DOMAIN call.visits : call.visits[i].after # call.visits[i].before
    /\ call.ret.top = getContentRect(layout, call.element, call.offsetParent,
                                     call.childTags).top - 300

\* C11: getBoundingRect and getBoundingContentRect follow one scroll-read
\* contract: for every scroll source, window-like or element-like, the two
\* subtract the same horizontal and the same vertical offset, so for an
\* element with no children they return equal Boxes.
ScrollReadIsCoherent ==
    call.op \in {"getBoundingRect", "getBoundingContentRect"} =>
        LET contentRect == getContentRect(layout, call.element, call.offsetParent,
                                          call.childTags)
            bounding == getBoundingRect(layout, window, call.element,
                                        call.offsetParent, call.scrollContainer)
            boundingContent ==
                getBoundingContentRect(layout, window, call.element,
                    call.offsetParent, call.childTags, call.scrollContainer)
        IN /\ OwnRect.top - bounding.top = contentRect.top - boundingContent.top
           /\ OwnRect.left - bounding.left = contentRect.left - boundingContent.left
           /\ ChildrenFrom(call.element, 1) = <<>> => bounding = boundingContent


(***************************************************************************)
(* ScrubEffects: the frame throttle                                        *)
(***************************************************************************)
\* How often a method is in a trace of method runs.
Runs(trace, method) == Cardinality({i \in DOMAIN trace : trace[i] = method})

\* The pending-frame flag is set exactly while one callback waits on the
\* host's list, so the host never holds two callbacks of one ScrubEffects.
AtMostOnePendingCallback ==
    /\ Len(page.animationFrameCallbacks) <= 1
    /\ page.nextFrameCallbackId # Undefined <=> page.animationFrameCallbacks # <<>>
    /\ history.frame.callbacks <= 1

\* C12: under any interleaving of scroll events, resize events and animation
\* frames at most one animation frame callback is pending, and scroll
\* propagation and effect application each run at most once per rendering
\* frame, however many events arrive before the frame.
OncePerRenderingFrame ==
    /\ Len(page.animationFrameCallbacks) <= 1
    /\ Runs(page.trace, "propagateScroll") <= 1
    /\ Runs(page.trace, "applyEffects") <= 1
    /\ Runs(history.frame.trace, "propagateScroll") <= 1
    /\ Runs(history.frame.trace, "applyEffects") <= 1

\* What does hold of the two methods: effects are applied by the frame
\* callback alone, once a frame; scroll propagation runs once in the callback
\* and once more for the ready event and for each resize event before it.
EffectsOncePerRenderingFrame ==
    /\ Runs(page.trace, "applyEffects") = 0
    /\ Runs(history.frame.trace, "applyEffects") <= 1
    /\ Runs(page.trace, "propagateScroll") <= 1 + MaxResizeEvents
    /\ Runs(history.frame.trace, "propagateScroll") <= 2 + MaxResizeEvents


(***************************************************************************)
(* ScrubEffects: the viewport memory of applyEffects                       *)
(***************************************************************************)
\* init ran between the frame before the last one and the last one: only
\* init propagates the scroll outside the frame callback.
RemeasuredBeforeFrame == Runs(history.frame.trace, "propagateScroll") > 1

\* C13: in every frame and for every tracked element the effect is applied
\* iff the element is in the viewport now or was in the viewport at the
\* previous frame's check, so an element that has left the viewport gets its
\* effect one more time on the first frame after leaving.
AppliedIffInViewportNowOrLastFrame ==
    history.frame.callbacks > 0 =>
        \A e \in EffectElements :
            e \in history.frame.applied <=>
                history.frame.checked[e] \/ history.frame.previous[e]

\* What does hold: the previous frame's check counts only if init has not
\* measured the elements again since, and the map remembers the last check.
AppliedIffInViewportSinceMeasured ==
    /\ history.frame.callbacks > 0 =>
          \A e \in EffectElements :
              e \in history.frame.applied <=>
                  \/ history.frame.checked[e]
                  \/ history.frame.previous[e] /\ ~RemeasuredBeforeFrame
    /\ page.trace = <<>> /\ history.frame.callbacks > 0 =>
          \A e \in EffectElements :
              page.elementsWithEffectsMap[e].inViewport = history.lastCheck[e]


(***************************************************************************)
(* ScrubEffects: no scroll event is lost by the throttle                   *)
(***************************************************************************)
\* The last frame's callback scrolled the root first and applied effects next.
ScrolledThenApplied ==
    LET trace == history.frame.trace
    IN /\ Len(trace) >= 2
       /\ trace[Len(trace) - 1] = "propagateScroll"
       /\ trace[Len(trace)] = "applyEffects"

\* The slide-in elements the last frame applied carry the transform of the
\* frame's snapshot.
AppliedWithSnapshot ==
    \A e \in history.frame.applied :
        LET params == page.elementsWithEffectsMap[e]
        IN params.effect = "slide-in" =>
              page.transform[e] =
                  SlideIn(page, e, params, history.frame.snapshot).transform[e]

\* A frame callback has just run that read the window scroll at or after
\* scroll event n, wrote it to the root, applied effects with the same
\* snapshot and released the flag.
Served(n) ==
    /\ history.frame.callbacks > 0
    /\ history.frame.read >= n
    /\ history.frame.read = history.scrollEvents
    /\ history.frame.snapshot.y = window.pageYOffset
    /\ history.frame.snapshot.x = window.pageXOffset
    /\ page.rootScroll = [scrollTop |-> history.frame.snapshot.y,
                          scrollLeft |-> history.frame.snapshot.x]
    /\ ScrolledThenApplied
    /\ AppliedWithSnapshot
    /\ page.nextFrameCallbackId = Undefined

\* The scroll listener ran with the flag released.
ScrollWithFlagReleased ==
    /\ \E w \in Scrolls : ScrollEvent(w)
    /\ page.listening
    /\ page.nextFrameCallbackId = Undefined

\* C14: given that every requested animation frame is eventually run, every
\* scroll event received after document ready is eventually followed by a
\* frame callback that reads a scroll position no older than the event,
\* writes it to the root before applying effects with the same snapshot and
\* releases the flag; a scroll event that finds the flag released requests a
\* new frame.
ScrollEventIsServed ==
    /\ \A n \in 1..MaxScrollEvents : (history.received = n) ~> Served(n)
    /\ [][ScrollWithFlagReleased =>
             /\ page'.nextFrameCallbackId # Undefined
             /\ page'.animationFrameCallbacks # <<>>]_vars

\* A second scroll event, received after a frame had run, has been served.
ScrollEventIsServedWitness ==
    /\ history.received > 1
    /\ history.frame.read = history.received
    /\ Served(history.received)
    /\ history.frame.applied # {}

====
